---- MODULE Spec2Model ----
(***************************************************************************)
(* The upload - clone - synthesize - stream pipeline of app/main.py: one   *)
(* worker process serving POST /synthesize.  A request is a small process  *)
(* whose program counter walks the statements of synthesize_endpoint; the  *)
(* handler is an `async def` without any await, so it occupies the event   *)
(* loop from its first statement to its return or raise.  The response     *)
(* body is streamed and the background tasks run after the handler has     *)
(* returned, interleaved with the handlers of other requests.              *)
(***************************************************************************)
EXTENDS Integers, Sequences, FiniteSets, TLC

\* ------------------------------------------------------------------ bounds
NumReq == 2        \* requests the process receives
MaxChunks == 2     \* chunks in a sequence the provider returns
MaxWriteChunks == 4  \* chunks in a sequence given to synthesize_text_to_file alone

\* --------------------------------------------------------------- constants
MinOutBytes == 100                      \* main.py:93
DefaultMaxRefBytes == 10 * 1024 * 1024  \* main.py:127
ReadSize == 1024 * 1024                 \* main.py:46
BACKEND_ACCESS_KEY == "s3cret"          \* main.py:24, the configured secret

Reqs == 1..NumReq
\* the random parts of temp names: a request draws at most one name of each
\* prefix, so no more names than requests are ever in use
Names == 1..NumReq

\* ------------------------------------------------------------------ inputs
NoHeader == "<absent>"
Headers == {NoHeader, BACKEND_ACCESS_KEY, "wrong"}
Filenames == {"a"}
UploadSizes == {3, DefaultMaxRefBytes + 1}
\* MAX_REF_BYTES in the environment: unset, "3", "x"
NoEnv == [set |-> FALSE, val |-> <<>>]
EnvVals == {NoEnv, [set |-> TRUE, val |-> <<"3">>],
            [set |-> TRUE, val |-> <<"x">>]}
CloneErrs == {"audio too short"}
SynthErrs == {"quota exceeded"}
OsErrs == {"No space left on device"}
Chunks == {[tag |-> "e", len |-> 0], [tag |-> "a", len |-> 50]}
ChunkSeqs == UNION {[1..k -> Chunks] : k \in 0..MaxChunks}
\* the chunks the provider yields before it raises, when it raises
FailPrefixes == {<<>>, <<[tag |-> "a", len |-> 50]>>}

\* ------------------------------------------------------------------- paths
NoPath == [pre |-> "", rnd |-> 0, suf |-> ""]
Suffixes == {".wav", ".mp3"}
Paths == [pre : {"ref_", "out_"}, rnd : Names, suf : Suffixes]

\* os.path.splitext(upload.filename)[1] or ".wav"
Suffix(filename) ==
  IF filename = "a.mp3" THEN ".mp3" ELSE ".wav"

\* os.path.basename of a temp path
Basename(p) == p.pre \o ToString(p.rnd) \o p.suf

VARIABLES
  pc,        \* pc[r]: the statement request r is at
  x_api_key, \* x_api_key[r]: the X-API-KEY header request r came with
  loop,      \* the request whose handler occupies the event loop, 0 if none
  env,       \* the value of MAX_REF_BYTES in os.environ
  startup_env, \* the value it had when the process started
  fs,        \* the temp directory: existing path |-> [owner, data]
  loc,       \* loc[r]: what request r holds (the handler's locals, its
             \* background tasks, its open response file)
  resp,      \* resp[r]: the response of r
  rmFailed,  \* the paths whose os.remove raised
  used,      \* the paths tempfile has created so far
  cloneLog   \* the names of the provider's clone calls, in order

vars == <<pc, x_api_key, loop, env, startup_env, fs, loc, resp, rmFailed, used, cloneLog>>

\* ----------------------------------------------------------------- helpers
Min(a, b) == IF a < b THEN a ELSE b

RECURSIVE Size(_)
\* os.path.getsize: the bytes of a file's data
Size(data) ==
  IF data = <<>> THEN 0 ELSE Head(data).len + Size(Tail(data))

Exists(p) == p \in DOMAIN fs

\* a tempfile that does not look whether the name it draws exists
FreePaths_Any(pre, suf) == {p \in Paths : p.pre = pre /\ p.suf = suf}

\* The names tempfile.NamedTemporaryFile(prefix=pre, suffix=suf) may draw: a
\* random name that does not exist.  Names never drawn before are
\* interchangeable, so of those only the first is drawn; a name drawn before
\* and free again may be drawn again.
FreePaths(pre, suf) ==
  {p \in Paths : /\ p.pre = pre /\ p.suf = suf
                 /\ ~Exists(p)
                 /\ \A n \in 1..(p.rnd - 1) : [p EXCEPT !.rnd = n] \in used}

\* the directory f with file p holding rec
AddFile(f, p, rec) ==
  [q \in DOMAIN f \cup {p} |-> IF q = p THEN rec ELSE f[q]]

\* Exceptions
OSError(t) == [type |-> "OSError", text |-> t]
ApiError(t) == [type |-> "ApiError", text |-> t]
RuntimeError(t) == [type |-> "RuntimeError", text |-> t]
ValueError(t) == [type |-> "ValueError", text |-> t]
HTTPException(s, d) == [type |-> "HTTPException", status |-> s, detail |-> d]
\* open() of a path that does not exist
NoSuchFile == OSError("No such file or directory")
\* RuntimeError("Synthesized file is empty or too small")
SynthesisEmpty == RuntimeError("Synthesized file is empty or too small")

\* str(e)
Str(e) ==
  IF e.type = "HTTPException" THEN ToString(e.status) \o ": " \o e.detail
  ELSE e.text

NoExc == [type |-> "", text |-> ""]
NoResp == [status |-> 0, detail |-> "", via |-> ""]
NoResponse == [chunks |-> <<>>, raises |-> ""]

\* what a request holds before its handler runs and after it is over
NoLocals ==
  [MAX_REF_BYTES |-> 0, ref_path |-> NoPath, e |-> NoExc,
   ref_size |-> 0, out_path |-> NoPath, background_tasks |-> <<>>,
   voice_id |-> 0, response |-> NoResponse, file_like |-> <<>>, sent |-> 0,
   created |-> {}, removed |-> <<>>, clone_calls |-> 0, synth_calls |-> <<>>,
   dropped_at |-> ""]
\* ---------------------------------------------------------- the framework
\* What the framework answers when the handler raises e: an HTTPException
\* becomes a response of its status and detail, anything else a plain 500.
ResponseOf(e) ==
  IF e.type = "HTTPException"
  THEN [status |-> e.status, detail |-> e.detail, via |-> "HTTPException"]
  ELSE [status |-> 500, detail |-> "Internal Server Error", via |-> "unhandled"]

\* The handler of r ends by raising e: the framework makes the response.
Raises(r, e) ==
  /\ resp' = [resp EXCEPT ![r] = ResponseOf(e)]
  /\ pc' = [pc EXCEPT ![r] = "raised"]
  /\ loop' = loop

\* The handler of r goes on to statement l.
Goto(r, l) ==
  /\ pc' = [pc EXCEPT ![r] = l]
  /\ UNCHANGED <<loop, resp>>

\* an event loop that runs a coroutine whether or not a handler occupies it
Idle_Always == TRUE

\* The event loop is free to run another coroutine: no handler occupies it.
\* synthesize_endpoint is an async def with no await in it or in what it
\* calls, so it yields the loop only by returning or raising.
Idle == loop = 0

\* ------------------------------------------------------- pure code pieces
IsDigit(c) == c \in {"0", "1", "2", "3", "4", "5", "6", "7", "8", "9"}
DigitVal(c) ==
  CASE c = "0" -> 0 [] c = "1" -> 1 [] c = "2" -> 2 [] c = "3" -> 3
    [] c = "4" -> 4 [] c = "5" -> 5 [] c = "6" -> 6 [] c = "7" -> 7
    [] c = "8" -> 8 [] c = "9" -> 9

RECURSIVE IntOfDigits(_, _)
IntOfDigits(s, acc) ==
  IF s = <<>> THEN acc ELSE IntOfDigits(Tail(s), 10 * acc + DigitVal(Head(s)))

\* int(os.getenv("MAX_REF_BYTES", 10 * 1024 * 1024)): [ok, val]
GetMaxRefBytes(e) ==
  IF ~e.set THEN [ok |-> TRUE, val |-> DefaultMaxRefBytes]
  ELSE IF e.val # <<>> /\ \A i \in 1..Len(e.val) : IsDigit(e.val[i])
  THEN [ok |-> TRUE, val |-> IntOfDigits(e.val, 0)]
  ELSE [ok |-> FALSE, val |-> 0]

RECURSIVE ReadAll(_)
\* the chunks upload.file.read(1024 * 1024) returns until the empty one
ReadAll(size) ==
  IF size = 0 THEN <<>>
  ELSE <<[tag |-> "u", len |-> Min(size, ReadSize)]>>
         \o ReadAll(size - Min(size, ReadSize))

\* where a read or write of the copy loop may raise: at its first chunk, or
\* at its last one
FailPoints(size) ==
  {0} \cup (IF size > ReadSize THEN {Len(ReadAll(size)) - 1} ELSE {})

\* _save_upload_tempfile on the fresh name p: the file with the chunks
\* copied, all of them (k = -1) or those before the read that raised (k)
SaveUploadFile(r, size, k) ==
  [owner |-> r,
   data |-> IF k < 0 THEN ReadAll(size) ELSE SubSeq(ReadAll(size), 1, k)]

\* _remove_file that swallows without removing
RemoveFile_Skips(f, path, raises) == f

\* _remove_file(path) on the directory f; raises: os.remove raises (swallowed)
RemoveFile(f, path, raises) ==
  IF path # NoPath /\ path \in DOMAIN f /\ ~raises
  THEN [q \in DOMAIN f \ {path} |-> f[q]]
  ELSE f

\* the paths of which os.remove raised, after _remove_file(path)
RemoveFailed(f, path, raises) ==
  IF path # NoPath /\ path \in DOMAIN f /\ raises THEN {path} ELSE {}

\* a loop that stops after the first chunk
WriteChunks_First(cs) == IF cs = <<>> THEN <<>> ELSE <<Head(cs)>>

\* an except clause that lets the exception through
Swallow_Reraises(e) == e

\* try: ... except Exception: pass -- what leaves _remove_file when its body
\* raised e
Swallow(e) == NoExc

\* what leaves _remove_file(path): the exception of os.remove, swallowed
RemoveFileExc(f, path, raises) ==
  Swallow(IF RemoveFailed(f, path, raises) # {}
          THEN OSError("Permission denied") ELSE NoExc)

RECURSIVE WriteChunks(_)
\* the loop of synthesize_text_to_file: every non-empty chunk is written
WriteChunks(cs) ==
  IF cs = <<>> THEN <<>>
  ELSE IF Head(cs).len > 0 THEN <<Head(cs)>> \o WriteChunks(Tail(cs))
  ELSE WriteChunks(Tail(cs))

RECURSIVE Bytes(_)
\* the bytes of a file's data: each chunk written is len bytes of its tag
Bytes(data) ==
  IF data = <<>> THEN <<>>
  ELSE [i \in 1..Head(data).len |-> Head(data).tag] \o Bytes(Tail(data))

\* synthesize_text_to_file without its size check
TooSmall_Unchecked(f, path) == FALSE

\* the check of synthesize_text_to_file after the loop
TooSmall(f, path) == path \notin DOMAIN f \/ Size(f[path].data) < MinOutBytes

\* a handler that never rejects a reference for its size
TooLarge_Never(size, max) == FALSE

\* the size check of the handler
TooLarge(size, max) == size > max

\* HTTPException(status_code=400, detail="Reference file too large")
TooLargeError == HTTPException(400, "Reference file too large")

\* except Exception as e (line 137)
Except137(e) == HTTPException(500, "Failed to save reference: " \o Str(e))

\* an except clause that hides the text of e
Except161_NoText(e) == HTTPException(500, "TTS error")

\* except Exception as e (line 161)
Except161(e) == HTTPException(500, "TTS error: " \o Str(e))

\* f"ref_clone_{os.path.basename(ref_path)}"
CloneName(p) == "ref_clone_" \o Basename(p)

\* a response whose body counts as sent before it is
BodySent_Early(r) == TRUE

\* the iteration of StreamingResponse over file_like is exhausted
BodySent(r) == loc[r].sent = Len(loc[r].file_like)

\* the statements at which a request is in flight: received, not yet over
InFlight ==
  {"auth", "getenv", "save", "size", "outalloc", "register", "clone",
   "convert", "write", "open", "raised", "stream"}

\* a handler that synthesizes with a fixed voice
VoiceArg_Fixed(r) == 1

\* the voice id the handler of r passes to synthesize_text_to_file
VoiceArg(r) == loc[r].voice_id

\* ------------------------------------------------------------------- state
Init ==
  /\ pc = [r \in Reqs |-> "new"]
  /\ x_api_key = [r \in Reqs |-> NoHeader]
  /\ loop = 0
  /\ env \in EnvVals
  /\ startup_env = env
  /\ fs = [q \in {} |-> [owner |-> 0, data |-> <<>>]]
  /\ loc = [r \in Reqs |-> NoLocals]
  /\ resp = [r \in Reqs |-> NoResp]
  /\ rmFailed = {}
  /\ used = {}
  /\ cloneLog = <<>>

\* ----------------------------------------------------------------- actions
\* The framework receives request r and binds the handler's parameters:
\* x_api_key is Header(...), a required parameter, and a request without the
\* header is answered 422 before the handler is entered.
Receive(r) ==
  /\ pc[r] = "new"
  /\ Idle
  /\ \E h \in Headers :
       /\ x_api_key' = [x_api_key EXCEPT ![r] = h]
       /\ IF h = NoHeader
          THEN /\ resp' = [resp EXCEPT ![r] =
                    [status |-> 422, detail |-> "Field required",
                     via |-> "validation"]]
               /\ pc' = [pc EXCEPT ![r] = "done"]
               /\ loop' = loop
          ELSE /\ pc' = [pc EXCEPT ![r] = "auth"]
               /\ loop' = r
               /\ resp' = resp
  /\ UNCHANGED <<env, startup_env, fs, loc, rmFailed, used, cloneLog>>

\* if x_api_key != BACKEND_ACCESS_KEY: raise HTTPException(401)
Authorize(r) ==
  /\ pc[r] = "auth"
  /\ IF x_api_key[r] # BACKEND_ACCESS_KEY
     THEN Raises(r, HTTPException(401, "Unauthorized"))
     ELSE Goto(r, "getenv")
  /\ UNCHANGED <<x_api_key, env, startup_env, fs, loc, rmFailed, used, cloneLog>>

\* MAX_REF_BYTES = int(os.getenv("MAX_REF_BYTES", 10 * 1024 * 1024)), outside
\* of any try
ReadLimit(r) ==
  /\ pc[r] = "getenv"
  /\ LET m == GetMaxRefBytes(env) IN
       IF m.ok
       THEN /\ loc' = [loc EXCEPT ![r].MAX_REF_BYTES = m.val]
            /\ Goto(r, "save")
       ELSE /\ loc' = loc
            /\ Raises(r, ValueError("invalid literal for int()"))
  /\ UNCHANGED <<x_api_key, env, startup_env, fs, rmFailed, used, cloneLog>>

\* ref_path = _save_upload_tempfile(ref_audio), inside the first try
SaveUpload(r) ==
  /\ pc[r] = "save"
  /\ \E fname \in Filenames, size \in UploadSizes :
       \/ \* NamedTemporaryFile raises: no file
          \E t \in OsErrs :
            /\ Raises(r, Except137(OSError(t)))
            /\ loc' = [loc EXCEPT ![r].e = OSError(t)]
            /\ UNCHANGED <<fs, used>>
       \/ \E p \in FreePaths("ref_", Suffix(fname)) :
            /\ used' = used \cup {p}
            /\ \/ \* the copy loop ends, tmp.close(), return tmp.name
                  /\ fs' = AddFile(fs, p, SaveUploadFile(r, size, -1))
                  /\ loc' = [loc EXCEPT ![r].created = @ \cup {p},
                                        ![r].ref_path = p]
                  /\ Goto(r, "size")
               \/ \* a read or a write raises: tmp.close() in finally, and
                  \* the exception leaves the function with the file in place
                  \E k \in FailPoints(size), t \in OsErrs :
                    /\ fs' = AddFile(fs, p, SaveUploadFile(r, size, k))
                    /\ loc' = [loc EXCEPT ![r].created = @ \cup {p},
                                          ![r].e = OSError(t)]
                    /\ Raises(r, Except137(OSError(t)))
  /\ UNCHANGED <<x_api_key, env, startup_env, rmFailed, cloneLog>>

\* if os.path.getsize(ref_path) > MAX_REF_BYTES: _remove_file(ref_path);
\* raise HTTPException(400) -- inside the try whose except catches Exception,
\* and HTTPException is an Exception
CheckSize(r) ==
  /\ pc[r] = "size"
  /\ LET path == loc[r].ref_path
         size == Size(fs[path].data)
     IN IF TooLarge(size, loc[r].MAX_REF_BYTES)
        THEN \E raises \in BOOLEAN :
               /\ fs' = RemoveFile(fs, path, raises)
               /\ rmFailed' = rmFailed \cup RemoveFailed(fs, path, raises)
               /\ LET exc == IF RemoveFileExc(fs, path, raises) = NoExc
                             THEN TooLargeError
                             ELSE RemoveFileExc(fs, path, raises)
                  IN /\ loc' = [loc EXCEPT ![r].ref_size = size,
                                           ![r].removed = Append(@, path),
                                           ![r].e = exc]
                     /\ Raises(r, Except137(exc))
        ELSE /\ loc' = [loc EXCEPT ![r].ref_size = size]
             /\ Goto(r, "outalloc")
             /\ UNCHANGED <<fs, rmFailed>>
  /\ UNCHANGED <<x_api_key, env, startup_env, used, cloneLog>>

\* out_tmp = tempfile.NamedTemporaryFile(...); out_path = out_tmp.name;
\* out_tmp.close() -- outside of any try
AllocOutput(r) ==
  /\ pc[r] = "outalloc"
  /\ \/ \E t \in OsErrs :
          /\ Raises(r, OSError(t))
          /\ UNCHANGED <<fs, loc, used>>
     \/ \E p \in FreePaths("out_", ".mp3") :
          /\ fs' = AddFile(fs, p, [owner |-> r, data |-> <<>>])
          /\ used' = used \cup {p}
          /\ loc' = [loc EXCEPT ![r].created = @ \cup {p},
                                ![r].out_path = p]
          /\ Goto(r, "register")
  /\ UNCHANGED <<x_api_key, env, startup_env, rmFailed, cloneLog>>

\* background_tasks.add_task(_remove_file, ref_path); ...(_remove_file, out_path)
RegisterCleanup(r) ==
  /\ pc[r] = "register"
  /\ loc' = [loc EXCEPT ![r].background_tasks =
               Append(Append(@, loc[r].ref_path), loc[r].out_path)]
  /\ Goto(r, "clone")
  /\ UNCHANGED <<x_api_key, env, startup_env, fs, rmFailed, used, cloneLog>>

\* clone_name = f"ref_clone_{os.path.basename(ref_path)}";
\* voice = create_voice_from_reference(clone_name, ref_path), inside the second try
CloneVoice(r) ==
  /\ pc[r] = "clone"
  /\ LET path == loc[r].ref_path
     IN IF ~Exists(path)
        THEN \* open(ref_path, "rb") raises
             /\ Raises(r, Except161(NoSuchFile))
             /\ loc' = [loc EXCEPT ![r].e = NoSuchFile]
             /\ cloneLog' = cloneLog
        ELSE /\ cloneLog' = Append(cloneLog, CloneName(path))
             /\ \/ \E t \in CloneErrs :
                     /\ loc' = [loc EXCEPT ![r].clone_calls = @ + 1,
                                           ![r].e = ApiError(t)]
                     /\ Raises(r, Except161(ApiError(t)))
                \/ \* the provider's id of the new voice
                   /\ loc' = [loc EXCEPT ![r].clone_calls = @ + 1,
                                         ![r].voice_id = Len(cloneLog) + 1]
                   /\ Goto(r, "convert")
  /\ UNCHANGED <<x_api_key, env, startup_env, fs, rmFailed, used>>

\* response = elevenlabs.text_to_speech.convert(voice_id=voice_id, ...): a
\* lazy sequence of chunks, which may raise after some of them
Convert(r) ==
  /\ pc[r] = "convert"
  /\ \/ \E cs \in ChunkSeqs :
          loc' = [loc EXCEPT ![r].response = [chunks |-> cs, raises |-> ""],
                            ![r].synth_calls = Append(@, VoiceArg(r))]
     \/ \E cs \in FailPrefixes, t \in SynthErrs :
          loc' = [loc EXCEPT ![r].response = [chunks |-> cs, raises |-> t],
                            ![r].synth_calls = Append(@, VoiceArg(r))]
  /\ Goto(r, "write")
  /\ UNCHANGED <<x_api_key, env, startup_env, fs, rmFailed, used, cloneLog>>

\* with open(out_path, "wb") as f: for chunk in response: if chunk:
\* f.write(chunk); then the size check of synthesize_text_to_file
WriteOutput(r) ==
  /\ pc[r] = "write"
  /\ LET path == loc[r].out_path
         rsp == loc[r].response
         f2 == AddFile(fs, path,
                 [owner |-> IF Exists(path) THEN fs[path].owner ELSE r,
                  data |-> WriteChunks(rsp.chunks)])
         exc == IF rsp.raises # "" THEN ApiError(rsp.raises)
                ELSE IF TooSmall(f2, path) THEN SynthesisEmpty
                ELSE NoExc
     IN /\ fs' = f2
        /\ loc' = [loc EXCEPT ![r].response = NoResponse,
                              ![r].e = exc,
                              ![r].created =
                                 IF Exists(path) THEN @ ELSE @ \cup {path}]
        /\ IF exc # NoExc THEN Raises(r, Except161(exc)) ELSE Goto(r, "open")
  /\ UNCHANGED <<x_api_key, env, startup_env, rmFailed, used, cloneLog>>

\* file_like = open(out_path, "rb"); return StreamingResponse(file_like, ...):
\* the framework attaches background_tasks to the response returned
ReturnResponse(r) ==
  /\ pc[r] = "open"
  /\ IF ~Exists(loc[r].out_path)
     THEN /\ Raises(r, Except161(NoSuchFile))
          /\ loc' = [loc EXCEPT ![r].e = NoSuchFile]
     ELSE /\ loc' = [loc EXCEPT ![r].file_like = fs[loc[r].out_path].data]
          /\ resp' = [resp EXCEPT ![r] =
                 [status |-> 200, detail |-> "", via |-> "return"]]
          /\ pc' = [pc EXCEPT ![r] = "stream"]
          /\ loop' = 0
  /\ UNCHANGED <<x_api_key, env, startup_env, fs, rmFailed, used, cloneLog>>

\* The framework answers a handler that raised: the error response is sent
\* and the request is over.  The tasks added to background_tasks belong to a
\* response the handler returns, and to no other: they are dropped.
SendError(r) ==
  /\ pc[r] = "raised"
  /\ pc' = [pc EXCEPT ![r] = "done"]
  /\ loop' = 0
  /\ loc' = [loc EXCEPT ![r] = NoLocals]
  /\ UNCHANGED <<x_api_key, env, startup_env, fs, resp, rmFailed, used, cloneLog>>

\* StreamingResponse sends the next block read from file_like
StreamChunk(r) ==
  /\ pc[r] = "stream"
  /\ Idle
  /\ loc[r].sent < Len(loc[r].file_like)
  /\ loc' = [loc EXCEPT ![r].sent = @ + 1]
  /\ UNCHANGED <<x_api_key, pc, loop, env, startup_env, fs, resp, rmFailed, used, cloneLog>>

\* The client of r drops the connection.  The handler makes only blocking
\* calls and never looks at the connection; the framework notices the drop
\* when it sends the response.
Disconnect(r) ==
  /\ pc[r] \in InFlight
  /\ loc[r].dropped_at = ""
  /\ loc' = [loc EXCEPT ![r].dropped_at = pc[r]]
  /\ UNCHANGED <<pc, x_api_key, loop, env, startup_env, fs, resp, rmFailed, used, cloneLog>>

\* The response of r is over: file_like is exhausted and the body is sent, or
\* the framework has noticed that the client is gone and stops sending.  The
\* background tasks of the response start.
StreamEnd(r) ==
  /\ pc[r] = "stream"
  /\ Idle
  /\ BodySent(r) \/ loc[r].dropped_at # ""
  /\ pc' = [pc EXCEPT ![r] = "bg1"]
  /\ UNCHANGED <<x_api_key, loop, env, startup_env, fs, loc, resp, rmFailed, used, cloneLog>>

\* os.environ is the process's own, mutable table, which line 127 reads at
\* each request: between two requests, with none in flight, MAX_REF_BYTES
\* is set to another value or deleted.
SetEnv ==
  /\ \A r \in Reqs : pc[r] \in {"new", "done"}
  /\ \E v \in EnvVals \ {env} : env' = v
  /\ UNCHANGED <<pc, x_api_key, loop, startup_env, fs, loc, resp, rmFailed,
                 used, cloneLog>>

\* the next background task, _remove_file(path), runs in a worker thread;
\* the tasks run one after the other, and a task that raised would end them
RunTask(r) ==
  /\ pc[r] \in {"bg1", "bg2"}
  /\ LET path == loc[r].background_tasks[IF pc[r] = "bg1" THEN 1 ELSE 2] IN
       \E raises \in BOOLEAN :
         /\ fs' = RemoveFile(fs, path, raises)
         /\ rmFailed' = rmFailed \cup RemoveFailed(fs, path, raises)
         /\ IF pc[r] = "bg1" /\ RemoveFileExc(fs, path, raises) = NoExc
            THEN /\ pc' = [pc EXCEPT ![r] = "bg2"]
                 /\ loc' = loc
            ELSE /\ pc' = [pc EXCEPT ![r] = "done"]
                 /\ loc' = [loc EXCEPT ![r] = NoLocals]
  /\ UNCHANGED <<x_api_key, loop, env, startup_env, resp, used, cloneLog>>

Next ==
  \E r \in Reqs :
    \/ Receive(r)
    \/ Authorize(r)
    \/ ReadLimit(r)
    \/ SaveUpload(r)
    \/ CheckSize(r)
    \/ AllocOutput(r)
    \/ RegisterCleanup(r)
    \/ CloneVoice(r)
    \/ Convert(r)
    \/ WriteOutput(r)
    \/ ReturnResponse(r)
    \/ SendError(r)
    \/ StreamChunk(r)
    \/ StreamEnd(r)
    \/ RunTask(r)

Spec == Init /\ [][Next]_vars

\* the process with clients that may drop their connection
NextDrop ==
  \/ Next
  \/ \E r \in Reqs : Disconnect(r)

SpecDrop == Init /\ [][NextDrop]_vars

\* the process with MAX_REF_BYTES changing in its environment
NextEnv ==
  \/ Next
  \/ SetEnv

SpecEnv == Init /\ [][NextEnv]_vars

\* ------------------------------------- synthesize_text_to_file on its own
\* The chunks the provider may yield, of two kinds of content, and what
\* out_path may hold when the function is called: the handler passes a file
\* just allocated, the function takes any path.
WriteChunkAlphabet == Chunks \cup {[tag |-> "b", len |-> 60]}
WriteInputs == UNION {[1..k -> WriteChunkAlphabet] : k \in 0..MaxWriteChunks}
OldContents == {<<>>, <<[tag |-> "o", len |-> 120]>>}

\* Request 1 is at the loop of synthesize_text_to_file, the sequence
\* convert() returned in hand; the other requests have not arrived.
InitWrite ==
  LET ref == [pre |-> "ref_", rnd |-> 1, suf |-> ".wav"]
      out == [pre |-> "out_", rnd |-> 1, suf |-> ".mp3"]
      none == [q \in {} |-> [owner |-> 0, data |-> <<>>]]
  IN /\ pc = [r \in Reqs |-> IF r = 1 THEN "write" ELSE "new"]
     /\ x_api_key = [r \in Reqs |-> IF r = 1 THEN BACKEND_ACCESS_KEY ELSE NoHeader]
     /\ loop = 1
     /\ env = NoEnv
     /\ startup_env = NoEnv
     /\ \E cs \in WriteInputs, old \in OldContents :
          /\ fs = AddFile(AddFile(none, ref, SaveUploadFile(1, 3, -1)),
                           out, [owner |-> 1, data |-> old])
          /\ loc = [r \in Reqs |->
                     IF r = 1
                     THEN [NoLocals EXCEPT
                             !.MAX_REF_BYTES = DefaultMaxRefBytes,
                             !.ref_path = ref, !.ref_size = 3,
                             !.out_path = out,
                             !.background_tasks = <<ref, out>>,
                             !.created = {ref, out},
                             !.clone_calls = 1, !.voice_id = 1,
                             !.synth_calls = <<1>>,
                             !.response = [chunks |-> cs, raises |-> ""]]
                     ELSE NoLocals]
     /\ resp = [r \in Reqs |-> NoResp]
     /\ rmFailed = {}
     /\ used = {ref, out}
     /\ cloneLog = <<CloneName(ref)>>

NextWrite == \E r \in Reqs : WriteOutput(r)

SpecWrite == InitWrite /\ [][NextWrite]_vars
\* ------------------------------------------------ _remove_file on its own
\* The paths _remove_file may be given: None, and the name of a file that
\* exists or does not.
RemoveArgs ==
  {NoPath, [pre |-> "ref_", rnd |-> 1, suf |-> ".wav"],
   [pre |-> "out_", rnd |-> 1, suf |-> ".mp3"]}

\* Request 1 has returned its response, the body is sent and its two
\* background tasks are about to run, on any two paths of RemoveArgs; request
\* 2 failed while it saved its upload and may have left its file behind.
InitRemove ==
  LET ref == [pre |-> "ref_", rnd |-> 1, suf |-> ".wav"]
      out == [pre |-> "out_", rnd |-> 1, suf |-> ".mp3"]
      other == [pre |-> "ref_", rnd |-> 2, suf |-> ".wav"]
      body == <<[tag |-> "a", len |-> 50], [tag |-> "a", len |-> 50]>>
      file == [q \in {ref, out, other} |->
                 IF q = ref THEN SaveUploadFile(1, 3, -1)
                 ELSE IF q = out THEN [owner |-> 1, data |-> body]
                 ELSE SaveUploadFile(2, 3, 0)]
  IN /\ pc = [r \in Reqs |-> IF r = 1 THEN "bg1"
                              ELSE IF r = 2 THEN "done" ELSE "new"]
     /\ x_api_key = [r \in Reqs |-> IF r <= 2 THEN BACKEND_ACCESS_KEY ELSE NoHeader]
     /\ loop = 0
     /\ env = NoEnv
     /\ startup_env = NoEnv
     /\ \E present \in SUBSET {ref, out, other} :
          fs = [q \in present |-> file[q]]
     /\ \E p1 \in RemoveArgs, p2 \in RemoveArgs :
          loc = [r \in Reqs |->
                   IF r = 1
                   THEN [NoLocals EXCEPT
                           !.MAX_REF_BYTES = DefaultMaxRefBytes,
                           !.ref_path = ref, !.ref_size = 3,
                           !.out_path = out,
                           !.background_tasks = <<p1, p2>>,
                           !.created = {ref, out},
                           !.clone_calls = 1, !.voice_id = 1,
                           !.synth_calls = <<1>>,
                           !.file_like = body, !.sent = Len(body)]
                   ELSE NoLocals]
     /\ resp = [r \in Reqs |->
                  IF r = 1 THEN [status |-> 200, detail |-> "", via |-> "return"]
                  ELSE IF r = 2
                  THEN ResponseOf(Except137(OSError("No space left on device")))
                  ELSE NoResp]
     /\ rmFailed = {}
     /\ used = {ref, out, other}
     /\ cloneLog = <<CloneName(ref)>>

NextRemove == \E r \in Reqs : RunTask(r)

SpecRemove == InitRemove /\ [][NextRemove]_vars

\* ------------------------------------------------------------------ claims
\* the temp files of request r that exist
OwnedFiles(r) == {p \in DOMAIN fs : fs[p].owner = r}

\* how often x occurs in the sequence q
Count(x, q) == Cardinality({i \in 1..Len(q) : q[i] = x})

\* the handler of r is over: it raised, or it returned its response
HandlerOver(r) == pc[r] \in {"raised", "stream", "bg1", "bg2"}

\* a response 500 "TTS error: ..."
IsTtsError(rsp) ==
  /\ rsp.status = 500
  /\ \E t \in CloneErrs \cup SynthErrs \cup {SynthesisEmpty.text, NoSuchFile.text} :
       rsp.detail = "TTS error: " \o t

\* C1: a request with a valid key whose saved reference is larger than the
\* ceiling ends with 400 "Reference file too large".
C1_OversizedIs400 ==
  \A r \in Reqs :
    (/\ pc[r] = "raised"
     /\ x_api_key[r] = BACKEND_ACCESS_KEY
     /\ loc[r].ref_size > loc[r].MAX_REF_BYTES)
    => (resp[r].status = 400 /\ resp[r].detail = "Reference file too large")

\* C2: a request whose X-API-KEY is missing or differs from the secret is
\* answered 401 "Unauthorized", creates no temp file and makes no provider
\* call.
C2_BadKeyIs401 ==
  \A r \in Reqs :
    (pc[r] # "new" /\ x_api_key[r] # BACKEND_ACCESS_KEY)
    => /\ resp[r] # NoResp
          => (resp[r].status = 401 /\ resp[r].detail = "Unauthorized")
       /\ loc[r].created = {}
       /\ OwnedFiles(r) = {}
       /\ loc[r].clone_calls = 0
       /\ loc[r].synth_calls = <<>>

\* C3: after a request answered 500 "TTS error: ..." is over, the deferred
\* cleanup has run: none of its temp files exists.
C3_CleanupAfterTtsError ==
  \A r \in Reqs :
    (pc[r] = "done" /\ IsTtsError(resp[r])) => OwnedFiles(r) = {}

\* C4: when the handler of a request is over, every temp file the request
\* created has been released or registered for deferred release exactly
\* once.
C4_ReleasedExactlyOnce ==
  \A r \in Reqs :
    HandlerOver(r)
    => \A p \in loc[r].created :
         Count(p, loc[r].background_tasks) + Count(p, loc[r].removed) = 1
\* C5 as claimed: after a request answered 200 is over, neither of its temp
\* files exists.
C5_NoFileAfter200 ==
  \A r \in Reqs :
    (pc[r] = "done" /\ resp[r].status = 200) => OwnedFiles(r) = {}

\* C5, amended: after a request answered 200 is over, with its body sent and
\* both deferred _remove_file tasks run, a temp file of the request exists
\* only if its os.remove raised.
C5_NoFileAfter200UnlessRemoveRaised ==
  \A r \in Reqs :
    (pc[r] = "done" /\ resp[r].status = 200) => OwnedFiles(r) \subseteq rmFailed

C5_Witness ==
  \E r \in Reqs :
    /\ pc[r] = "done" /\ resp[r].status = 200
    /\ OwnedFiles(r) = {}
    /\ rmFailed = {}

\* C6: when the clone call or the synthesize call of a request raises a
\* provider error of text D, the response is 500 "TTS error: D", never 200.
C6_ProviderErrorIs500 ==
  \A r \in Reqs :
    loc[r].e.type = "ApiError"
    => /\ pc[r] = "raised"
       /\ resp[r].status = 500
       /\ resp[r].detail = "TTS error: " \o loc[r].e.text

C6_Witness ==
  /\ \E r \in Reqs : resp[r].detail = "TTS error: audio too short"
  /\ \E r \in Reqs : resp[r].detail = "TTS error: quota exceeded"

\* C7: a chunk sequence exhausted with fewer than 100 bytes written makes the
\* request end in 500, and a response 200 streams an output file that exists
\* and holds at least 100 bytes.
C7_SmallOutputIs500 ==
  /\ [][\A r \in Reqs :
          (/\ pc[r] = "write"
           /\ pc'[r] # "write"
           /\ loc[r].response.raises = ""
           /\ Size(loc[r].response.chunks) < 100)
          => (pc'[r] = "raised" /\ resp'[r].status = 500)]_vars
  /\ [](\A r \in Reqs :
          (pc[r] = "stream" /\ resp[r].status = 200)
          => /\ Exists(loc[r].out_path)
             /\ Size(fs[loc[r].out_path].data) >= 100
             /\ loc[r].file_like = fs[loc[r].out_path].data)

C7_Witness ==
  \E r \in Reqs :
    /\ pc[r] = "raised"
    /\ resp[r].detail = "TTS error: Synthesized file is empty or too small"
    /\ Size(fs[loc[r].out_path].data) = 50

\* C8: when the clone call of a request has been invoked, the request's
\* reference file holds at most MAX_REF_BYTES bytes.
C8_ForwardedWithinCeiling ==
  \A r \in Reqs :
    (loc[r].clone_calls > 0 /\ loop = r)
    => /\ Exists(loc[r].ref_path)
       /\ Size(fs[loc[r].ref_path].data) <= loc[r].MAX_REF_BYTES

\* a reference of exactly MAX_REF_BYTES bytes was forwarded
C8_Witness ==
  \E r \in Reqs :
    /\ loc[r].clone_calls > 0 /\ loop = r
    /\ Size(fs[loc[r].ref_path].data) = loc[r].MAX_REF_BYTES

\* C9: a request makes at most one clone call and at most one synthesize
\* call; a request answered 200 made exactly one of each, and its synthesize
\* call got the voice id its clone call returned.
C9_NoRetry ==
  \A r \in Reqs :
    /\ loc[r].clone_calls <= 1
    /\ Len(loc[r].synth_calls) <= 1
    /\ (resp[r].status = 200 /\ pc[r] # "done")
       => /\ loc[r].clone_calls = 1
          /\ loc[r].voice_id # 0
          /\ loc[r].synth_calls = <<loc[r].voice_id>>

\* two requests answered 200, the second with the second voice
C9_Witness ==
  \E r \in Reqs :
    /\ resp[r].status = 200 /\ pc[r] = "stream"
    /\ loc[r].synth_calls = <<2>>

\* C10: no two clone calls pass the same name to the provider.
C10_DistinctCloneNames ==
  \A i, j \in 1..Len(cloneLog) : i # j => cloneLog[i] # cloneLog[j]

\* request r was rejected because its saved upload exceeds the ceiling
RejectedOversized(r) ==
  /\ pc[r] = "raised"
  /\ loc[r].ref_path # NoPath
  /\ loc[r].ref_size > loc[r].MAX_REF_BYTES

\* C11 as claimed: when a request is rejected for an upload above the
\* ceiling, its reference file does not exist any more, no output file was
\* allocated, nothing was left to deferred cleanup and no provider call was
\* made.
C11_OversizedRemovedInHandler ==
  \A r \in Reqs :
    RejectedOversized(r)
    => /\ ~Exists(loc[r].ref_path)
       /\ loc[r].out_path = NoPath
       /\ loc[r].background_tasks = <<>>
       /\ loc[r].clone_calls = 0
       /\ loc[r].synth_calls = <<>>

\* C11, amended: when a request is rejected for an upload above the ceiling,
\* the handler has called _remove_file on the reference file, which exists
\* afterwards only if os.remove raised; no output file was allocated, nothing
\* was left to deferred cleanup and no provider call was made.
C11_OversizedRemovedUnlessRemoveRaised ==
  \A r \in Reqs :
    RejectedOversized(r)
    => /\ loc[r].removed = <<loc[r].ref_path>>
       /\ Exists(loc[r].ref_path) => loc[r].ref_path \in rmFailed
       /\ OwnedFiles(r) \subseteq {loc[r].ref_path}
       /\ loc[r].out_path = NoPath
       /\ loc[r].background_tasks = <<>>
       /\ loc[r].clone_calls = 0
       /\ loc[r].synth_calls = <<>>

\* an oversized upload rejected with its reference file gone
C11_Witness ==
  \E r \in Reqs :
    /\ RejectedOversized(r)
    /\ ~Exists(loc[r].ref_path)
    /\ loc[r].ref_size = DefaultMaxRefBytes + 1

\* C12: every failure after the authorization check is converted by the
\* handler into an HTTPException of status 500; no other exception leaves the
\* handler.
C12_AllFailuresConverted ==
  \A r \in Reqs :
    (pc[r] = "raised" /\ x_api_key[r] = BACKEND_ACCESS_KEY)
    => /\ resp[r].via = "HTTPException"
       /\ resp[r].status = 500

\* C13: the output file of a request answered 200 is in place, with the
\* content the response reads, for as long as the body is being streamed; it
\* is removed only by the request's second background task, which runs when
\* the streaming is over (the body sent whole, or given up on a client that
\* is gone).
C13_OutputRemovedAfterStreaming ==
  /\ [][\A r \in Reqs :
          (/\ resp[r].status = 200
           /\ loc[r].out_path \in DOMAIN fs
           /\ loc[r].out_path \notin DOMAIN fs')
          => /\ pc[r] = "bg2"
             /\ \/ loc[r].sent = Len(loc[r].file_like)
                \/ loc[r].dropped_at # ""]_vars
  /\ [](\A r \in Reqs :
          pc[r] = "stream"
          => /\ loc[r].out_path \in DOMAIN fs
             /\ loc[r].sent <= Len(loc[r].file_like))

\* a request answered 200 is over and an output file has been removed
C13_Witness ==
  \E r \in Reqs :
    /\ pc[r] = "done" /\ resp[r].status = 200
    /\ \E p \in used : p.pre = "out_" /\ ~Exists(p)

\* C14: within a request the stages run in order, in the handler that holds
\* the event loop: the clone call is made with the upload saved, within the
\* ceiling, the output file allocated and the release of both files
\* registered; the synthesize call is made with the voice the clone call
\* returned; the response file is opened after synthesize has consumed its
\* chunks and returned.
C14_StagesInOrder ==
  [][\A r \in Reqs :
       /\ loc'[r].clone_calls > loc[r].clone_calls
          => /\ loop = r /\ pc[r] = "clone"
             /\ loc[r].ref_path \in DOMAIN fs
             /\ loc[r].ref_size = Size(fs[loc[r].ref_path].data)
             /\ loc[r].ref_size <= loc[r].MAX_REF_BYTES
             /\ loc[r].out_path \in DOMAIN fs
             /\ loc[r].background_tasks = <<loc[r].ref_path, loc[r].out_path>>
             /\ loc[r].synth_calls = <<>>
       /\ Len(loc'[r].synth_calls) > Len(loc[r].synth_calls)
          => /\ loop = r /\ pc[r] = "convert"
             /\ loc[r].clone_calls = 1
             /\ loc[r].voice_id # 0
             /\ loc[r].file_like = <<>>
       /\ (pc[r] # "stream" /\ pc'[r] = "stream")
          => /\ loop = r /\ pc[r] = "open"
             /\ Len(loc[r].synth_calls) = 1
             /\ loc[r].response = NoResponse
             /\ loc[r].e = NoExc]_vars

\* a request went through all the stages
C14_Witness ==
  \E r \in Reqs :
    /\ pc[r] = "stream"
    /\ loc[r].clone_calls = 1
    /\ Len(loc[r].synth_calls) = 1
    /\ loc[r].file_like # <<>>

\* the non-empty chunks of cs, in the order of cs
NonEmptyChunks(cs) == SelectSeq(cs, LAMBDA c : c.len > 0)

\* C15: when the loop of synthesize_text_to_file has exhausted the chunk
\* sequence, the bytes of the output file are the bytes of the non-empty
\* chunks of the sequence, in arrival order, and nothing else: what the file
\* held before is gone.
C15_FileIsConcatenation ==
  [][\A r \in Reqs :
       (/\ pc[r] = "write" /\ pc'[r] # "write"
        /\ loc[r].response.raises = "")
       => /\ loc[r].out_path \in DOMAIN fs'
          /\ Bytes(fs'[loc[r].out_path].data)
               = Bytes(NonEmptyChunks(loc[r].response.chunks))
          /\ \A i \in 1..Len(fs'[loc[r].out_path].data) :
               fs'[loc[r].out_path].data[i].tag # "o"]_vars

\* a file written from chunks of both kinds, in the order b, a
C15_Witness ==
  \E r \in Reqs :
    /\ pc[r] = "open"
    /\ Bytes(fs[loc[r].out_path].data)
         = [i \in 1..110 |-> IF i <= 60 THEN "b" ELSE "a"]

\* the temp paths request r holds: those of its locals it has not released
Holds(r) ==
  {p \in {loc[r].ref_path, loc[r].out_path} \ {NoPath} :
     /\ \A i \in 1..Len(loc[r].removed) : loc[r].removed[i] # p
     /\ ~(pc[r] = "bg2" /\ p = loc[r].background_tasks[1])}

\* C16: no two requests hold the same temp path at the same time; a path a
\* request holds names a file the request itself created, which is the file
\* its clone call and its response read; a step that removes or rewrites
\* a file is a step of the request that created it.
C16_NoCrossRequestInterference ==
  /\ [](\A r \in Reqs :
          /\ \A q \in Reqs \ {r} : Holds(r) \cap Holds(q) = {}
          /\ \A p \in Holds(r) : Exists(p) /\ fs[p].owner = r)
  /\ [][\A p \in DOMAIN fs :
          (p \notin DOMAIN fs' \/ fs'[p] # fs[p])
          => \E r \in Reqs :
               /\ fs[p].owner = r
               /\ pc[r] \in {"size", "write", "bg1", "bg2"}
               /\ pc'[r] # pc[r]
               /\ \A q \in Reqs \ {r} : pc'[q] = pc[q]]_vars

\* a request holds a reference file under the name of a file that a
\* request still running its background tasks has deleted
C16_Witness ==
  \E a, b \in Reqs :
    /\ a # b
    /\ pc[a] = "bg2"
    /\ loc[b].ref_path = loc[a].background_tasks[1]
    /\ loc[b].ref_path \in Holds(b)

\* the path of the background task request r runs next
TaskPath(r) == loc[r].background_tasks[IF pc[r] = "bg1" THEN 1 ELSE 2]

\* C17: a background _remove_file returns normally whatever its path: after
\* the first task the second one is due, after the second the request is
\* over; the response is what it was; no file other than the one named is
\* touched, and for None or a missing path none at all; the file named is
\* gone unless os.remove raised.
C17_RemoveFileNeverRaises ==
  [][\A r \in Reqs :
       (pc[r] \in {"bg1", "bg2"} /\ pc'[r] # pc[r])
       => /\ pc'[r] = IF pc[r] = "bg1" THEN "bg2" ELSE "done"
          /\ resp' = resp
          /\ DOMAIN fs' \subseteq DOMAIN fs
          /\ \A p \in DOMAIN fs \ {TaskPath(r)} :
               p \in DOMAIN fs' /\ fs'[p] = fs[p]
          /\ (TaskPath(r) = NoPath \/ TaskPath(r) \notin DOMAIN fs)
             => (fs' = fs /\ rmFailed' = rmFailed)
          /\ TaskPath(r) \in DOMAIN fs'
             => (TaskPath(r) \in rmFailed' /\ fs'[TaskPath(r)] = fs[TaskPath(r)])]_vars

\* os.remove raised for the reference file, and the release of the output
\* file, which exists, is due next
C17_Witness ==
  \E r \in Reqs :
    /\ pc[r] = "bg2"
    /\ resp[r].status = 200
    /\ loc[r].background_tasks[1] = loc[r].ref_path
    /\ loc[r].ref_path \in rmFailed
    /\ Exists(loc[r].ref_path)
    /\ loc[r].background_tasks[2] = loc[r].out_path
    /\ Exists(loc[r].out_path)

\* C18: every request is checked against the ceiling that MAX_REF_BYTES held
\* when the process started, whatever the environment holds at the time of
\* the request.
C18_CeilingReadOnceAtStartup ==
  \A r \in Reqs :
    (/\ GetMaxRefBytes(startup_env).ok
     /\ pc[r] \in InFlight \ {"auth", "getenv", "raised"})
    => loc[r].MAX_REF_BYTES = GetMaxRefBytes(startup_env).val

\* C19: when the client of a request dropped the connection while the
\* request was in its clone or synthesize stage, its temp files created and
\* their release registered, then once the request is over none of its temp
\* files exists, but for one whose os.remove raised.
C19_CleanupAfterDisconnect ==
  [][\A r \in Reqs :
       (/\ loc[r].dropped_at \in {"clone", "convert", "write"}
        /\ pc[r] # "done" /\ pc'[r] = "done")
       => {p \in DOMAIN fs' : fs'[p].owner = r} \subseteq rmFailed']_vars

\* the statements of the handler, from the authorization check to its return
HandlerPcs ==
  {"auth", "getenv", "save", "size", "outalloc", "register", "clone",
   "convert", "write", "open"}

\* C20: at most one request is inside the handler at a time, and it occupies
\* the event loop; while it does, its own steps apart, the process only runs
\* background tasks of other requests: no other request is received, enters
\* or leaves its handler, or has a block of its body sent.
C20_HandlersDoNotInterleave ==
  /\ [](\A r \in Reqs :
          pc[r] \in HandlerPcs
          => /\ loop = r
             /\ \A q \in Reqs \ {r} : pc[q] \notin HandlerPcs \cup {"raised"})
  /\ [][\A r \in Reqs :
          pc[r] \in HandlerPcs
          => \A q \in Reqs \ {r} :
               (pc'[q] # pc[q] \/ loc'[q] # loc[q])
               => /\ pc[q] \in {"bg1", "bg2"}
                  /\ pc'[r] = pc[r] /\ loc'[r] = loc[r]]_vars

\* a handler at its clone call while another request, its first background
\* task run, has the second one due
C20_Witness ==
  \E r, q \in Reqs :
    /\ pc[r] = "clone"
    /\ pc[q] = "bg2"
    /\ ~Exists(loc[q].background_tasks[1])
====
